---- MODULE Spec2Model ----
(***************************************************************************)
(* BioSimSpace.Protocol.Equilibration: a validated-settings object.  The   *)
(* model follows python/BioSimSpace/Protocol/equilibration.py: the         *)
(* constructor, the five property getters and setters and isConstantTemp.  *)
(*                                                                         *)
(* Python values are records [k, m, e]: k is the type tag; a number        *)
(* (k = "num") is the decimal m * 10^e with a one-digit mantissa           *)
(* (1 <= |m| <= 9, or m = e = 0 for zero), so that equal numbers are equal *)
(* records and magnitudes down to pytest.approx's 1e-12 are representable. *)
(* Numbers range over finite reals (the domain of the data model).         *)
(***************************************************************************)
EXTENDS Integers, Sequences, FiniteSets

\* Largest mantissa of the enumerated numeric inputs (at most 9).
MaxMantissa == 2

----------------------------------------------------------------------------
\* Python values

Num(m, e) == [k |-> "num", m |-> m, e |-> e]
Zero == Num(0, 0)
PyNone == [k |-> "NoneType", m |-> 0, e |-> 0]
PyBool(b) == [k |-> "bool", m |-> IF b THEN 1 ELSE 0, e |-> 0]
PyTrue == PyBool(TRUE)
PyFalse == PyBool(FALSE)
\* the string "yes"
PyStrYes == [k |-> "str", m |-> 1, e |-> 0]
\* an attribute that has not been assigned on the instance
Unset == [k |-> "unset", m |-> 0, e |-> 0]
AttributeError == [k |-> "AttributeError", m |-> 0, e |-> 0]

Sign(x) == IF x.m > 0 THEN 1 ELSE IF x.m < 0 THEN -1 ELSE 0
Abs(x) == Num(IF x.m < 0 THEN -x.m ELSE x.m, x.e)

\* x < y on numbers
Lt(x, y) ==
    IF Sign(x) # Sign(y) THEN Sign(x) < Sign(y)
    ELSE IF Sign(x) = 0 THEN FALSE
    ELSE IF Sign(x) = 1 THEN x.e < y.e \/ (x.e = y.e /\ x.m < y.m)
    ELSE y.e < x.e \/ (x.e = y.e /\ x.m < y.m)

\* x <= y on numbers
Le(x, y) == x = y \/ Lt(x, y)

\* The literals of the source
TIMESTEP_DEFAULT == Num(2, 0)
RUNTIME_DEFAULT == Num(2, -1)
TEMPERATURE_DEFAULT == Num(3, 2)
TEMPERATURE_ZERO == Num(1, -2)

\* pytest.approx(0): the tolerance is max(rel * |expected|, abs) with
\* rel = 1e-6 and abs = 1e-12, which is abs for expected = 0;
\* temperature == approx(0) is |temperature - 0| <= tolerance.
APPROX_ABS_TOLERANCE == Num(1, -12)
EqApproxZero(temperature) == Le(Abs(temperature), APPROX_ABS_TOLERANCE)

\* The warning messages
W_TIMESTEP == "The time step must be positive. Using default (2 fs)."
W_RUNTIME == "The running time must be positive. Using default (0.2 ns)."
W_TEMP_START == "Starting temperature must be positive. Using default (300 K)."
W_TEMP_END == "Final temperature must be positive. Using default (300 K)."
W_RESTRAINED == "Non-boolean backbone restraint flag. Defaulting to no restraint!"
W_SAME_TEMP == "Start and end temperatures are the same!"

----------------------------------------------------------------------------
\* The setters: the value each one stores and the warnings it emits

timestep_setter_strict(timestep) ==
    IF Lt(timestep, Zero)
    THEN [val |-> TIMESTEP_DEFAULT, warns |-> <<W_TIMESTEP>>]
    ELSE [val |-> timestep, warns |-> <<>>]

timestep_setter(timestep) ==
    IF Le(timestep, Zero)
    THEN [val |-> TIMESTEP_DEFAULT, warns |-> <<W_TIMESTEP>>]
    ELSE [val |-> timestep, warns |-> <<>>]

runtime_setter(runtime) ==
    IF Le(runtime, Zero)
    THEN [val |-> RUNTIME_DEFAULT, warns |-> <<W_RUNTIME>>]
    ELSE [val |-> runtime, warns |-> <<>>]

temperature_start_setter_exact(temperature) ==
    IF Lt(temperature, Zero)
    THEN [val |-> TEMPERATURE_DEFAULT, warns |-> <<W_TEMP_START>>]
    ELSE IF temperature = Zero
    THEN [val |-> TEMPERATURE_ZERO, warns |-> <<>>]
    ELSE [val |-> temperature, warns |-> <<>>]

temperature_start_setter(temperature) ==
    IF Lt(temperature, Zero)
    THEN [val |-> TEMPERATURE_DEFAULT, warns |-> <<W_TEMP_START>>]
    ELSE IF EqApproxZero(temperature)
    THEN [val |-> TEMPERATURE_ZERO, warns |-> <<>>]
    ELSE [val |-> temperature, warns |-> <<>>]

temperature_end_setter_noclamp(temperature) ==
    IF Lt(temperature, Zero)
    THEN [val |-> TEMPERATURE_DEFAULT, warns |-> <<W_TEMP_END>>]
    ELSE [val |-> temperature, warns |-> <<>>]

temperature_end_setter_warnzero(temperature) ==
    IF Lt(temperature, Zero)
    THEN [val |-> TEMPERATURE_DEFAULT, warns |-> <<W_TEMP_END>>]
    ELSE IF EqApproxZero(temperature)
    THEN [val |-> TEMPERATURE_ZERO, warns |-> <<W_TEMP_END>>]
    ELSE [val |-> temperature, warns |-> <<>>]

temperature_end_setter(temperature) ==
    IF Lt(temperature, Zero)
    THEN [val |-> TEMPERATURE_DEFAULT, warns |-> <<W_TEMP_END>>]
    ELSE IF EqApproxZero(temperature)
    THEN [val |-> TEMPERATURE_ZERO, warns |-> <<>>]
    ELSE [val |-> temperature, warns |-> <<>>]

is_restrained_setter_truthy(restrain_backbone) ==
    IF restrain_backbone.k \in {"bool", "num"}
    THEN [val |-> PyBool(restrain_backbone.m # 0), warns |-> <<>>]
    ELSE [val |-> PyFalse, warns |-> <<W_RESTRAINED>>]

\* type(restrain_backbone) is bool
is_restrained_setter(restrain_backbone) ==
    IF restrain_backbone.k = "bool"
    THEN [val |-> restrain_backbone, warns |-> <<>>]
    ELSE [val |-> PyFalse, warns |-> <<W_RESTRAINED>>]

\* Protocol.__init__(ProtocolType.EQUILIBRATION, gas_phase): the base class
\* keeps the protocol kind and the gas-phase flag.
Protocol_init(type, gas_phase) == [type |-> type, gas_phase |-> gas_phase]

\* An attribute read: AttributeError when the attribute was never assigned.
GetAttr(attr) ==
    IF attr = Unset
    THEN [kind |-> "raise", val |-> AttributeError]
    ELSE [kind |-> "return", val |-> attr]

\* A call that runs to its end returns None.
ReturnNone == [kind |-> "return", val |-> PyNone]

----------------------------------------------------------------------------
\* The constructor: the attributes it assigns and the warnings it emits

init_never_const(timestep, runtime, temperature_start, temperature_end, restrain_backbone, gas_phase) ==
    LET base == Protocol_init("EQUILIBRATION", gas_phase)
        ts == timestep_setter(timestep)
        rt == runtime_setter(runtime)
        t0 == temperature_start_setter(temperature_start)
        t1 == temperature_end_setter(temperature_end)
        rs == is_restrained_setter(restrain_backbone)
        given == temperature_end # PyNone
        same == given /\ t0.val = t1.val
    IN  [_type |-> base.type,
         _gas_phase |-> base.gas_phase,
         _timestep |-> ts.val,
         _runtime |-> rt.val,
         _temperature_start |-> t0.val,
         _temperature_end |-> IF given THEN t1.val ELSE Unset,
         _is_const_temp |-> IF given THEN PyFalse ELSE PyTrue,
         _is_restrained |-> rs.val,
         warns |-> ts.warns \o rt.warns \o t0.warns
                   \o (IF given THEN t1.warns ELSE <<>>)
                   \o (IF same THEN <<W_SAME_TEMP>> ELSE <<>>)
                   \o rs.warns]

init_warn_unset(timestep, runtime, temperature_start, temperature_end, restrain_backbone, gas_phase) ==
    LET base == Protocol_init("EQUILIBRATION", gas_phase)
        ts == timestep_setter(timestep)
        rt == runtime_setter(runtime)
        t0 == temperature_start_setter(temperature_start)
        t1 == temperature_end_setter(temperature_end)
        rs == is_restrained_setter(restrain_backbone)
        given == temperature_end # PyNone
        same == given /\ t0.val = t1.val
    IN  [_type |-> base.type,
         _gas_phase |-> base.gas_phase,
         _timestep |-> ts.val,
         _runtime |-> rt.val,
         _temperature_start |-> t0.val,
         _temperature_end |-> IF given THEN t1.val ELSE Unset,
         _is_const_temp |-> IF given THEN PyBool(same) ELSE PyTrue,
         _is_restrained |-> rs.val,
         warns |-> ts.warns \o rt.warns \o t0.warns
                   \o (IF given THEN t1.warns ELSE <<>>)
                   \o (IF same \/ ~given THEN <<W_SAME_TEMP>> ELSE <<>>)
                   \o rs.warns]

init_compare_raw(timestep, runtime, temperature_start, temperature_end, restrain_backbone, gas_phase) ==
    LET base == Protocol_init("EQUILIBRATION", gas_phase)
        ts == timestep_setter(timestep)
        rt == runtime_setter(runtime)
        t0 == temperature_start_setter(temperature_start)
        t1 == temperature_end_setter(temperature_end)
        rs == is_restrained_setter(restrain_backbone)
        given == temperature_end # PyNone
        same == given /\ temperature_start = temperature_end
    IN  [_type |-> base.type,
         _gas_phase |-> base.gas_phase,
         _timestep |-> ts.val,
         _runtime |-> rt.val,
         _temperature_start |-> t0.val,
         _temperature_end |-> IF given THEN t1.val ELSE Unset,
         _is_const_temp |-> IF given THEN PyBool(same) ELSE PyTrue,
         _is_restrained |-> rs.val,
         warns |-> ts.warns \o rt.warns \o t0.warns
                   \o (IF given THEN t1.warns ELSE <<>>)
                   \o (IF same THEN <<W_SAME_TEMP>> ELSE <<>>)
                   \o rs.warns]

\* Equilibration.__init__: the base constructor, then each attribute through
\* its setter. temperature_end is assigned only when the argument is not
\* None; the flag compares the stored temperatures.
__init__(timestep, runtime, temperature_start, temperature_end, restrain_backbone, gas_phase) ==
    LET base == Protocol_init("EQUILIBRATION", gas_phase)
        ts == timestep_setter(timestep)
        rt == runtime_setter(runtime)
        t0 == temperature_start_setter(temperature_start)
        t1 == temperature_end_setter(temperature_end)
        rs == is_restrained_setter(restrain_backbone)
        given == temperature_end # PyNone
        same == given /\ t0.val = t1.val
    IN  [_type |-> base.type,
         _gas_phase |-> base.gas_phase,
         _timestep |-> ts.val,
         _runtime |-> rt.val,
         _temperature_start |-> t0.val,
         _temperature_end |-> IF given THEN t1.val ELSE Unset,
         _is_const_temp |-> IF given THEN PyBool(same) ELSE PyTrue,
         _is_restrained |-> rs.val,
         warns |-> ts.warns \o rt.warns \o t0.warns
                   \o (IF given THEN t1.warns ELSE <<>>)
                   \o (IF same THEN <<W_SAME_TEMP>> ELSE <<>>)
                   \o rs.warns]

----------------------------------------------------------------------------
\* The inputs of the calls

\* Exponents of the enumerated temperatures: the approx(0) tolerance 1e-12,
\* values between it and 0.01, and values of the size of 0.01
TempExps == {-12, -3, -2}

TimeInputs ==
    {Num(-1, 0), Zero} \cup {Num(m, 0) : m \in 1..MaxMantissa}
      \cup {TIMESTEP_DEFAULT, RUNTIME_DEFAULT}

TempInputs ==
    {Zero, TEMPERATURE_DEFAULT}
      \cup {Num(m, e) : m \in 1..MaxMantissa, e \in TempExps}
      \cup {Num(-1, e) : e \in TempExps}

RestrainInputs == {PyTrue, PyFalse, Num(0, 0), Num(1, 0), PyStrYes, PyNone}

BoolInputs == {PyTrue, PyFalse}

----------------------------------------------------------------------------
\* The object, the last call, its outcome and the warnings it emitted

VARIABLES _type, _gas_phase, _timestep, _runtime, _temperature_start,
          _temperature_end, _is_restrained, _is_const_temp,
          call, ret, warnings

attrs == <<_type, _gas_phase, _timestep, _runtime, _temperature_start,
           _temperature_end, _is_restrained, _is_const_temp>>
vars == <<_type, _gas_phase, _timestep, _runtime, _temperature_start,
          _temperature_end, _is_restrained, _is_const_temp,
          call, ret, warnings>>

Call(op, args) == [op |-> op, args |-> args]

\* Before the constructor runs the instance has no attribute.
Init ==
    /\ _type = "" /\ _gas_phase = Unset
    /\ _timestep = Unset /\ _runtime = Unset
    /\ _temperature_start = Unset /\ _temperature_end = Unset
    /\ _is_restrained = Unset /\ _is_const_temp = Unset
    /\ call = Call("", <<>>)
    /\ ret = [kind |-> "none", val |-> PyNone]
    /\ warnings = <<>>

constructed == call.op # ""

Construct ==
    /\ ~constructed
    /\ \E timestep \in TimeInputs, runtime \in TimeInputs,
          temperature_start \in TempInputs,
          temperature_end \in TempInputs \cup {PyNone},
          restrain_backbone \in RestrainInputs, gas_phase \in BoolInputs :
          LET new == __init__(timestep, runtime, temperature_start,
                              temperature_end, restrain_backbone, gas_phase)
          IN  /\ _type' = new._type
              /\ _gas_phase' = new._gas_phase
              /\ _timestep' = new._timestep
              /\ _runtime' = new._runtime
              /\ _temperature_start' = new._temperature_start
              /\ _temperature_end' = new._temperature_end
              /\ _is_const_temp' = new._is_const_temp
              /\ _is_restrained' = new._is_restrained
              /\ warnings' = new.warns
              /\ ret' = ReturnNone
              /\ call' = Call("__init__", <<timestep, runtime,
                                temperature_start, temperature_end,
                                restrain_backbone, gas_phase>>)

----------------------------------------------------------------------------
\* The setters

Set_timestep ==
    /\ constructed
    /\ \E timestep \in TimeInputs :
          LET r == timestep_setter(timestep)
          IN  /\ _timestep' = r.val
              /\ warnings' = r.warns
              /\ ret' = ReturnNone
              /\ call' = Call("timestep.setter", <<timestep>>)
    /\ UNCHANGED <<_type, _gas_phase, _runtime, _temperature_start,
                   _temperature_end, _is_restrained, _is_const_temp>>

Set_runtime ==
    /\ constructed
    /\ \E runtime \in TimeInputs :
          LET r == runtime_setter(runtime)
          IN  /\ _runtime' = r.val
              /\ warnings' = r.warns
              /\ ret' = ReturnNone
              /\ call' = Call("runtime.setter", <<runtime>>)
    /\ UNCHANGED <<_type, _gas_phase, _timestep, _temperature_start,
                   _temperature_end, _is_restrained, _is_const_temp>>

Set_temperature_start ==
    /\ constructed
    /\ \E temperature \in TempInputs :
          LET r == temperature_start_setter(temperature)
          IN  /\ _temperature_start' = r.val
              /\ warnings' = r.warns
              /\ ret' = ReturnNone
              /\ call' = Call("temperature_start.setter", <<temperature>>)
    /\ UNCHANGED <<_type, _gas_phase, _timestep, _runtime,
                   _temperature_end, _is_restrained, _is_const_temp>>

Set_temperature_end_rederive ==
    /\ constructed
    /\ \E temperature \in TempInputs :
          LET r == temperature_end_setter(temperature)
          IN  /\ _temperature_end' = r.val
              /\ _is_const_temp' = PyBool(_temperature_start = r.val)
              /\ warnings' = r.warns
              /\ ret' = ReturnNone
              /\ call' = Call("temperature_end.setter", <<temperature>>)
    /\ UNCHANGED <<_type, _gas_phase, _timestep, _runtime,
                   _temperature_start, _is_restrained>>

Set_temperature_end ==
    /\ constructed
    /\ \E temperature \in TempInputs :
          LET r == temperature_end_setter(temperature)
          IN  /\ _temperature_end' = r.val
              /\ warnings' = r.warns
              /\ ret' = ReturnNone
              /\ call' = Call("temperature_end.setter", <<temperature>>)
    /\ UNCHANGED <<_type, _gas_phase, _timestep, _runtime,
                   _temperature_start, _is_restrained, _is_const_temp>>

Set_is_restrained ==
    /\ constructed
    /\ \E restrain_backbone \in RestrainInputs :
          LET r == is_restrained_setter(restrain_backbone)
          IN  /\ _is_restrained' = r.val
              /\ warnings' = r.warns
              /\ ret' = ReturnNone
              /\ call' = Call("is_restrained.setter", <<restrain_backbone>>)
    /\ UNCHANGED <<_type, _gas_phase, _timestep, _runtime,
                   _temperature_start, _temperature_end, _is_const_temp>>

----------------------------------------------------------------------------
\* The getters and isConstantTemp: each returns the attribute it names

Get(op, attr) ==
    /\ constructed
    /\ ret' = GetAttr(attr)
    /\ warnings' = <<>>
    /\ call' = Call(op, <<>>)
    /\ UNCHANGED attrs

Get_timestep == Get("timestep", _timestep)

Get_runtime == Get("runtime", _runtime)

Get_temperature_start == Get("temperature_start", _temperature_start)

Get_temperature_end == Get("temperature_end", _temperature_end)

Get_is_restrained == Get("is_restrained", _is_restrained)

isConstantTemp == Get("isConstantTemp", _is_const_temp)

----------------------------------------------------------------------------

Next ==
    \/ Construct
    \/ Set_timestep
    \/ Set_runtime
    \/ Set_temperature_start
    \/ Set_temperature_end
    \/ Set_is_restrained
    \/ Get_timestep
    \/ Get_runtime
    \/ Get_temperature_start
    \/ Get_temperature_end
    \/ Get_is_restrained
    \/ isConstantTemp

Spec == Init /\ [][Next]_vars

----------------------------------------------------------------------------
\* Properties

Warned(w) == \E i \in 1..Len(warnings) : warnings[i] = w

IsCall(op) == call.op = op

\* C1: no operation fails: every call made on a constructed object, with
\* any numeric arguments, returns instead of raising.
C1_NoOperationRaises == ret.kind # "raise"

\* C2 (as stated): the temperature_start setter stores 300 with a warning
\* for s < 0, 0.01 silently for s = 0, and s itself, silently, for every
\* s > 0 however small.
C2_AsStated ==
    IsCall("temperature_start.setter") =>
        LET s == call.args[1]
        IN  /\ Lt(s, Zero) =>
                 _temperature_start = TEMPERATURE_DEFAULT /\ warnings # <<>>
            /\ s = Zero =>
                 _temperature_start = TEMPERATURE_ZERO /\ warnings = <<>>
            /\ Lt(Zero, s) => _temperature_start = s /\ warnings = <<>>

\* C2 (amended): the temperature_start setter stores 300 with a warning for
\* s < 0, 0.01 silently for 0 <= s <= 1e-12 (s == approx(0)), and s itself,
\* silently, for every s > 1e-12.
C2_StartSetterRule ==
    IsCall("temperature_start.setter") =>
        LET s == call.args[1]
        IN  /\ Lt(s, Zero) =>
                 _temperature_start = TEMPERATURE_DEFAULT
                 /\ warnings = <<W_TEMP_START>>
            /\ Le(Zero, s) /\ Le(s, APPROX_ABS_TOLERANCE) =>
                 _temperature_start = TEMPERATURE_ZERO /\ warnings = <<>>
            /\ Lt(APPROX_ABS_TOLERANCE, s) =>
                 _temperature_start = s /\ warnings = <<>>

C2_Witness ==
    /\ IsCall("temperature_start.setter")
    /\ call.args[1] = Num(1, -12)
    /\ _temperature_start = TEMPERATURE_ZERO
    /\ warnings = <<>>

\* C3 (as stated): once constructed, temperature_start >= 0.01 and
\* temperature_end, when it has been set, is >= 0.01.
C3_AsStated ==
    constructed =>
        /\ Le(TEMPERATURE_ZERO, _temperature_start)
        /\ _temperature_end # Unset => Le(TEMPERATURE_ZERO, _temperature_end)

\* C3 (amended): once constructed, temperature_start > 1e-12 (so it is
\* strictly positive) and temperature_end, when it has been set, is > 1e-12.
C3_TemperaturePositive ==
    constructed =>
        /\ Lt(APPROX_ABS_TOLERANCE, _temperature_start)
        /\ _temperature_end # Unset =>
             Lt(APPROX_ABS_TOLERANCE, _temperature_end)

C3_Witness ==
    /\ IsCall("temperature_end.setter")
    /\ Lt(_temperature_end, TEMPERATURE_ZERO)
    /\ Lt(_temperature_start, TEMPERATURE_ZERO)

\* C4: the timestep setter and the runtime setter, called directly or by
\* the constructor, store the default (2, 0.2) with a warning for v <= 0 and
\* v itself without a warning for v > 0; so timestep > 0 and runtime > 0 in
\* every state of a constructed object.
C4_PositiveFields ==
    /\ IsCall("timestep.setter") =>
         IF Le(call.args[1], Zero)
         THEN _timestep = TIMESTEP_DEFAULT /\ warnings = <<W_TIMESTEP>>
         ELSE _timestep = call.args[1] /\ warnings = <<>>
    /\ IsCall("runtime.setter") =>
         IF Le(call.args[1], Zero)
         THEN _runtime = RUNTIME_DEFAULT /\ warnings = <<W_RUNTIME>>
         ELSE _runtime = call.args[1] /\ warnings = <<>>
    /\ IsCall("__init__") =>
         /\ IF Le(call.args[1], Zero)
            THEN _timestep = TIMESTEP_DEFAULT /\ Warned(W_TIMESTEP)
            ELSE _timestep = call.args[1] /\ ~Warned(W_TIMESTEP)
         /\ IF Le(call.args[2], Zero)
            THEN _runtime = RUNTIME_DEFAULT /\ Warned(W_RUNTIME)
            ELSE _runtime = call.args[2] /\ ~Warned(W_RUNTIME)
    /\ constructed => Lt(Zero, _timestep) /\ Lt(Zero, _runtime)

C4_Witness ==
    /\ IsCall("timestep.setter")
    /\ call.args[1] = Zero
    /\ _timestep = TIMESTEP_DEFAULT
    /\ warnings = <<W_TIMESTEP>>
    /\ _runtime = Num(1, 0)

\* C5: constructing with temperature_end equal to temperature_start (not
\* None) gives isConstantTemp() = True and the equal-temperatures warning.
C5_EqualArgsConstant ==
    IsCall("__init__") /\ call.args[4] # PyNone /\ call.args[3] = call.args[4]
        => _is_const_temp = PyTrue /\ Warned(W_SAME_TEMP)

C5_Witness ==
    /\ IsCall("__init__")
    /\ call.args[3] = Num(-1, -3)
    /\ call.args[4] = Num(-1, -3)
    /\ _is_const_temp = PyTrue
    /\ Warned(W_SAME_TEMP)

\* C6: constructing with temperature_end = None gives isConstantTemp() =
\* True without the equal-temperatures warning, and without any warning
\* when timestep > 0, runtime > 0, temperature_start >= 0 and
\* restrain_backbone is a bool.
C6_NoneEndConstant ==
    IsCall("__init__") /\ call.args[4] = PyNone =>
        /\ _is_const_temp = PyTrue
        /\ ~Warned(W_SAME_TEMP)
        /\ (/\ Lt(Zero, call.args[1])
            /\ Lt(Zero, call.args[2])
            /\ Le(Zero, call.args[3])
            /\ call.args[5].k = "bool") => warnings = <<>>

C6_Witness ==
    /\ IsCall("__init__")
    /\ call.args[4] = PyNone
    /\ call.args[3] = Zero
    /\ _is_const_temp = PyTrue
    /\ warnings = <<>>

\* C7: after construction no call changes the flag isConstantTemp returns,
\* even one that makes the two temperatures equal or different.
C7_ConstTempFrozen == [][constructed => _is_const_temp' = _is_const_temp]_vars

C7_Witness ==
    /\ IsCall("temperature_end.setter")
    /\ _temperature_start = _temperature_end
    /\ _is_const_temp = PyFalse

\* C8: the is_restrained setter stores a bool unchanged without a warning
\* and stores False with a warning for a value of any other type; so
\* is_restrained is a bool in every state of a constructed object.
C8_RestrainedBoolOnly ==
    /\ IsCall("is_restrained.setter") =>
         IF call.args[1].k = "bool"
         THEN _is_restrained = call.args[1] /\ warnings = <<>>
         ELSE _is_restrained = PyFalse /\ warnings = <<W_RESTRAINED>>
    /\ constructed => _is_restrained \in {PyTrue, PyFalse}

C8_Witness ==
    /\ IsCall("is_restrained.setter")
    /\ call.args[1] = Num(1, 0)
    /\ _is_restrained = PyFalse
    /\ warnings = <<W_RESTRAINED>>

\* C9: for the same input the temperature_end setter stores what the
\* temperature_start setter stores, and one warns exactly when the other
\* does.
C9_EndSetterSameRule ==
    /\ IsCall("temperature_end.setter") =>
         LET r == temperature_start_setter(call.args[1])
         IN  _temperature_end = r.val /\ (warnings # <<>> <=> r.warns # <<>>)
    /\ IsCall("temperature_start.setter") =>
         LET r == temperature_end_setter(call.args[1])
         IN  _temperature_start = r.val /\ (warnings # <<>> <=> r.warns # <<>>)

C9_Witness ==
    /\ IsCall("temperature_end.setter")
    /\ call.args[1] = Num(1, -12)
    /\ _temperature_end = TEMPERATURE_ZERO
    /\ warnings = <<>>

\* C10: when temperature_end is not None the constructor's flag is True
\* exactly when the stored temperatures are equal, and the
\* equal-temperatures warning is emitted in exactly that case, whatever the
\* raw arguments were.
C10_ComparesStored ==
    IsCall("__init__") /\ call.args[4] # PyNone =>
        /\ _is_const_temp = PyBool(_temperature_start = _temperature_end)
        /\ Warned(W_SAME_TEMP) <=> _temperature_start = _temperature_end

C10_Witness ==
    /\ IsCall("__init__")
    /\ call.args[3] = Zero
    /\ call.args[4] = TEMPERATURE_ZERO
    /\ _is_const_temp = PyTrue
    /\ Warned(W_SAME_TEMP)
====
